---- MODULE Spec2Model ----
(***************************************************************************)
(* Model of Solver.py: the Grid class (cells with a colour and a queen    *)
(* flag, queen_positions, history) and the handlers main() wires to it:   *)
(* a click on a cell recolours it, the Solve / Reset / Undo buttons call  *)
(* Grid.solve / Grid.reset / Grid.undo.                                    *)
(***************************************************************************)
EXTENDS Integers, Sequences, FiniteSets, TLC

\* ---------------------------------------------------------------- bounds
MaxN == 3          \* board sizes 1..MaxN are explored
NumColors == 3     \* palette indices 0..NumColors-1 can be selected
MaxEdits == 2      \* number of cell clicks explored in one run

VARIABLES
    grid_size,        \* Grid.grid_size
    grid,             \* Grid.grid[row][col] : Cell(row, col, color, contains_queen)
    queen_positions,  \* Grid.queen_positions : a list of (row, col), or None
    history,          \* Grid.history : list of (row, col, prev_color)
    op,               \* the handler that ran last
    result,           \* what the last solve call did: solved / no_solution / TypeError
    orig,             \* placement of the last successful solve, dropped when a cell is clicked
    resolve,          \* the last step was a solve right after a reset of a solved, unedited board
    edits             \* number of cell clicks so far

vars == <<grid_size, grid, queen_positions, history, op, result, orig, resolve, edits>>

\* ------------------------------------------------------- Python values
\* queen_positions holds a list or None; a call evaluates to one of those
\* or raises TypeError.
List(s) == [kind |-> "list", items |-> s]
None == [kind |-> "None", items |-> <<>>]
TypeError == [kind |-> "TypeError", items |-> <<>>]

\* Python truthiness of a list-or-None value: None and [] are falsy.
Truthy(v) == v.kind = "list" /\ Len(v.items) > 0

Range(n) == 0 .. (n - 1)
Palette == Range(NumColors)

\* ------------------------------------------------------------ Cell, Grid
\* A cell constructor that starts with the queen flag set.
CellStartsOccupied(row, col, color) ==
    [row |-> row, col |-> col, color |-> color, contains_queen |-> TRUE]

Cell(row, col, color) ==
    [row |-> row, col |-> col, color |-> color, contains_queen |-> FALSE]

NewGrid(n) == [row \in Range(n) |-> [col \in Range(n) |-> Cell(row, col, 0)]]

\* Grid.is_safe, evaluated against the list held in self.queen_positions.
is_safe(g, self_qp, row, col) ==
    \A i \in 1 .. Len(self_qp) :
        LET r == self_qp[i][1]
            c == self_qp[i][2]
        IN  /\ ~ (r = row \/ c = col)
            /\ ~ ((IF row - r < 0 THEN r - row ELSE row - r) <= 1
                  /\ (IF col - c < 0 THEN c - col ELSE col - c) <= 1)
            /\ ~ (g[r][c].color = g[row][col].color)

\* The closure backtrack of Grid.solve.  self_qp is self.queen_positions as
\* it stands while the search runs; queen_positions and placed_regions are
\* the closure's own arguments.  tryCols is the for-loop from column col on.
RECURSIVE backtrack(_, _, _, _, _, _), tryCols(_, _, _, _, _, _, _)
RECURSIVE tryColsNoRegionCheck(_, _, _, _, _, _, _)
backtrack(n, g, self_qp, row, qp, placed_regions) ==
    IF row = n
    THEN List(qp)
    ELSE tryCols(n, g, self_qp, row, 0, qp, placed_regions)

\* The column loop without the test "cell.color not in placed_regions".
tryColsNoRegionCheck(n, g, self_qp, row, col, qp, placed_regions) ==
    IF col >= n
    THEN None
    ELSE IF self_qp.kind # "list"
    THEN TypeError
    ELSE IF is_safe(g, self_qp.items, row, col)
    THEN LET sub == backtrack(n, g, self_qp, row + 1, Append(qp, <<row, col>>),
                              placed_regions \cup {g[row][col].color})
         IN  IF sub.kind = "TypeError" THEN sub
             ELSE IF Truthy(sub) THEN sub
             ELSE tryColsNoRegionCheck(n, g, self_qp, row, col + 1, qp, placed_regions)
    ELSE tryColsNoRegionCheck(n, g, self_qp, row, col + 1, qp, placed_regions)

tryCols(n, g, self_qp, row, col, qp, placed_regions) ==
    IF col >= n   \* range(self.grid_size) is exhausted (empty when grid_size <= 0)
    THEN None
    ELSE IF self_qp.kind # "list"
    THEN TypeError   \* is_safe iterates self.queen_positions: None is not iterable
    ELSE IF is_safe(g, self_qp.items, row, col) /\ g[row][col].color \notin placed_regions
    THEN LET sub == backtrack(n, g, self_qp, row + 1, Append(qp, <<row, col>>),
                              placed_regions \cup {g[row][col].color})
         IN  IF sub.kind = "TypeError" THEN sub
             ELSE IF Truthy(sub) THEN sub
             ELSE tryCols(n, g, self_qp, row, col + 1, qp, placed_regions)
    ELSE tryCols(n, g, self_qp, row, col + 1, qp, placed_regions)

\* A marking loop that skips the first queen of the list.
MarkQueensSkipsFirst(g, items) ==
    [row \in DOMAIN g |-> [col \in DOMAIN g[row] |->
        IF \E i \in 2 .. Len(items) : items[i] = <<row, col>>
        THEN [g[row][col] EXCEPT !.contains_queen = TRUE]
        ELSE g[row][col]]]

\* The partial placements the search builds: every value the closure's list
\* takes right after a "queen_positions.append((row, col))", collected over
\* the for-loop of row from column col on and over the calls it makes.
RECURSIVE commits(_, _, _, _, _, _, _)
commits(n, g, self_qp, row, col, qp, placed_regions) ==
    IF row = n \/ col >= n
    THEN {}
    ELSE IF self_qp.kind # "list"
    THEN {}
    ELSE IF is_safe(g, self_qp.items, row, col) /\ g[row][col].color \notin placed_regions
    THEN LET qp1 == Append(qp, <<row, col>>)
             placed1 == placed_regions \cup {g[row][col].color}
             sub == backtrack(n, g, self_qp, row + 1, qp1, placed1)
         IN  {qp1} \cup commits(n, g, self_qp, row + 1, 0, qp1, placed1)
                   \cup (IF sub.kind = "TypeError" \/ Truthy(sub)
                         THEN {}
                         ELSE commits(n, g, self_qp, row, col + 1, qp, placed_regions))
    ELSE commits(n, g, self_qp, row, col + 1, qp, placed_regions)

\* The rows backtrack is called with during the same search.
RECURSIVE rows_entered(_, _, _, _, _, _, _)
rows_entered(n, g, self_qp, row, col, qp, placed_regions) ==
    IF row = n \/ col >= n
    THEN {row}
    ELSE IF self_qp.kind # "list"
    THEN {row}
    ELSE IF is_safe(g, self_qp.items, row, col) /\ g[row][col].color \notin placed_regions
    THEN LET qp1 == Append(qp, <<row, col>>)
             placed1 == placed_regions \cup {g[row][col].color}
             sub == backtrack(n, g, self_qp, row + 1, qp1, placed1)
         IN  {row} \cup rows_entered(n, g, self_qp, row + 1, 0, qp1, placed1)
                   \cup (IF sub.kind = "TypeError" \/ Truthy(sub)
                         THEN {}
                         ELSE rows_entered(n, g, self_qp, row, col + 1, qp, placed_regions))
    ELSE rows_entered(n, g, self_qp, row, col + 1, qp, placed_regions)

\* The flags after the loop "for row, col in self.queen_positions: ... = True".
MarkQueens(g, items) ==
    [row \in DOMAIN g |-> [col \in DOMAIN g[row] |->
        IF \E i \in 1 .. Len(items) : items[i] = <<row, col>>
        THEN [g[row][col] EXCEPT !.contains_queen = TRUE]
        ELSE g[row][col]]]

\* A clearing loop whose inner range stops one column short.
ClearQueensSkipsLastColumn(g) ==
    [row \in DOMAIN g |-> [col \in DOMAIN g[row] |->
        IF col < Cardinality(DOMAIN g[row]) - 1
        THEN [g[row][col] EXCEPT !.contains_queen = FALSE]
        ELSE g[row][col]]]

\* The flags after the double loop of Grid.reset.
ClearQueens(g) ==
    [row \in DOMAIN g |-> [col \in DOMAIN g[row] |->
        [g[row][col] EXCEPT !.contains_queen = FALSE]]]

\* ------------------------------------------------------------------ Init
\* main(): grid = Grid(GRID_SIZE); nothing has been clicked yet.
Init ==
    /\ grid_size \in 1 .. MaxN
    /\ grid = NewGrid(grid_size)
    /\ queen_positions = List(<<>>)
    /\ history = <<>>
    /\ op = "init"
    /\ result = "none"
    /\ orig = None
    /\ resolve = FALSE
    /\ edits = 0

\* An exception raised inside a button action is not caught by main's loop:
\* the program ends.
Running == result # "TypeError"

\* ---------------------------------------------------------------- actions
\* A click on cell (row, col) with palette entry selected_color chosen.
ClickCell ==
    /\ Running
    /\ edits < MaxEdits
    /\ \E row \in Range(grid_size), col \in Range(grid_size), selected_color \in Palette :
          grid' = [grid EXCEPT ![row][col].color = selected_color]
    /\ edits' = edits + 1
    /\ op' = "recolor"
    /\ result' = "none"
    /\ orig' = None
    /\ resolve' = FALSE
    /\ UNCHANGED <<grid_size, queen_positions, history>>

\* A solve that, starting from scratch, also empties the edit history.
SolveClearsHistory ==
    /\ Running
    /\ LET found == backtrack(grid_size, grid, queen_positions, 0, <<>>, {})
       IN  IF found.kind = "TypeError"
           THEN /\ result' = "TypeError"
                /\ UNCHANGED <<grid, queen_positions, orig>>
           ELSE /\ queen_positions' = found
                /\ IF ~ Truthy(found)
                   THEN /\ result' = "no_solution"
                        /\ UNCHANGED <<grid, orig>>
                   ELSE /\ result' = "solved"
                        /\ grid' = MarkQueens(grid, found.items)
                        /\ orig' = found
    /\ op' = "solve"
    /\ resolve' = (op = "reset" /\ orig # None)
    /\ history' = <<>>
    /\ UNCHANGED <<grid_size, edits>>

\* The Solve button: Grid.solve.
Solve ==
    /\ Running
    /\ LET found == backtrack(grid_size, grid, queen_positions, 0, <<>>, {})
       IN  IF found.kind = "TypeError"
           THEN /\ result' = "TypeError"
                /\ UNCHANGED <<grid, queen_positions, orig>>
           ELSE /\ queen_positions' = found
                /\ IF ~ Truthy(found)
                   THEN /\ result' = "no_solution"
                        /\ UNCHANGED <<grid, orig>>
                   ELSE /\ result' = "solved"
                        /\ grid' = MarkQueens(grid, found.items)
                        /\ orig' = found
    /\ op' = "solve"
    /\ resolve' = (op = "reset" /\ orig # None)
    /\ UNCHANGED <<grid_size, history, edits>>

\* A reset that clears the flags but forgets to empty queen_positions.
ResetKeepsPlacement ==
    /\ Running
    /\ grid' = ClearQueens(grid)
    /\ op' = "reset"
    /\ result' = "none"
    /\ resolve' = FALSE
    /\ UNCHANGED <<grid_size, queen_positions, history, orig, edits>>

\* The Reset button: Grid.reset.
Reset ==
    /\ Running
    /\ queen_positions' = List(<<>>)
    /\ grid' = ClearQueens(grid)
    /\ op' = "reset"
    /\ result' = "none"
    /\ resolve' = FALSE
    /\ UNCHANGED <<grid_size, history, orig, edits>>

\* An undo that takes the oldest history entry instead of the newest.
UndoPopsOldest ==
    /\ Running
    /\ IF Len(history) > 0
       THEN LET e == history[1]
            IN  /\ history' = Tail(history)
                /\ grid' = [grid EXCEPT ![e[1]][e[2]].color = e[3]]
                /\ orig' = None
       ELSE UNCHANGED <<history, grid, orig>>
    /\ op' = "undo"
    /\ result' = "none"
    /\ resolve' = FALSE
    /\ UNCHANGED <<grid_size, queen_positions, edits>>

\* The Undo button: Grid.undo.
Undo ==
    /\ Running
    /\ IF Len(history) > 0
       THEN LET e == history[Len(history)]
            IN  /\ history' = SubSeq(history, 1, Len(history) - 1)
                /\ grid' = [grid EXCEPT ![e[1]][e[2]].color = e[3]]
                /\ orig' = None
       ELSE UNCHANGED <<history, grid, orig>>
    /\ op' = "undo"
    /\ result' = "none"
    /\ resolve' = FALSE
    /\ UNCHANGED <<grid_size, queen_positions, edits>>

Next == ClickCell \/ Solve \/ Reset \/ Undo

Spec == Init /\ [][Next]_vars

\* ------------------------------------------------- boards given as inputs
\* Grid(n) for the sizes of BoardSizes, either as constructed or with every
\* row painted in one colour (row_color[row]) by clicks on its cells; the
\* buttons are then applied to it.
BoardSizes == {0 - 1, 0, 1, 2, 4}

RowPainted(n, row_color) ==
    [row \in Range(n) |-> [col \in Range(n) |-> Cell(row, col, row_color[row])]]

InitBoards ==
    /\ grid_size \in BoardSizes
    /\ \E row_color \in [Range(grid_size) -> Range(grid_size)] :
          /\ grid = RowPainted(grid_size, row_color)
          /\ edits = grid_size * Cardinality({row \in Range(grid_size) : row_color[row] # 0})
    /\ queen_positions = List(<<>>)
    /\ history = <<>>
    /\ op = IF edits = 0 THEN "init" ELSE "recolor"
    /\ result = "none"
    /\ orig = None
    /\ resolve = FALSE

NextBoards == Solve \/ Reset \/ Undo

SpecBoards == InitBoards /\ [][NextBoards]_vars

\* ------------------------------------------ grids with a recorded history
\* Nothing in main() appends to Grid.history, so under Spec it stays empty.
\* To exercise Grid.undo on entries, SpecUndo starts from Grid objects whose
\* history already holds up to MaxHist entries (row, col, prev_color) for
\* cells of the board and any palette colour, no queens placed, and every
\* cell either in the constructor's colour 0 or painted with the colour that
\* is selected when main() starts (selected_color = 1).
MaxHist == 2
UndoSizes == {1, 2}
ClickedColors == {0, 1}

HistoryEntries(n) == Range(n) \X Range(n) \X Palette

RECURSIVE Histories(_, _)
Histories(n, len) ==
    IF len = 0
    THEN {<<>>}
    ELSE LET shorter == Histories(n, len - 1)
         IN  shorter \cup {Append(h, e) : h \in {s \in shorter : Len(s) = len - 1},
                                           e \in HistoryEntries(n)}

Painted(n, color) ==
    [row \in Range(n) |-> [col \in Range(n) |-> Cell(row, col, color[row][col])]]

InitUndo ==
    /\ grid_size \in UndoSizes
    /\ \E color \in [Range(grid_size) -> [Range(grid_size) -> ClickedColors]] :
          grid = Painted(grid_size, color)
    /\ history \in Histories(grid_size, MaxHist)
    /\ queen_positions = List(<<>>)
    /\ op = "init"
    /\ result = "none"
    /\ orig = None
    /\ resolve = FALSE
    /\ edits = Len(history)

NextUndo == Undo \/ Solve \/ Reset

SpecUndo == InitUndo /\ [][NextUndo]_vars

\* =================================================================
\* Properties
\* =================================================================
Abs(x) == IF x < 0 THEN 0 - x ELSE x

\* A list of (row, col) pairs is a complete valid placement on board g of
\* size n: n entries, pairwise-distinct rows, columns and regions, and no
\* two entries within Chebyshev distance 1.
ValidPlacement(items, g, n) ==
    /\ Len(items) = n
    /\ \A i \in 1 .. Len(items) : items[i][1] \in Range(n) /\ items[i][2] \in Range(n)
    /\ \A i, j \in 1 .. Len(items) : i # j =>
          /\ items[i][1] # items[j][1]
          /\ items[i][2] # items[j][2]
          /\ g[items[i][1]][items[i][2]].color # g[items[j][1]][items[j][2]].color
          /\ ~ (Abs(items[i][1] - items[j][1]) <= 1 /\ Abs(items[i][2] - items[j][2]) <= 1)

\* Column sequences (one column per row, rows ascending) as placements.
AsPlacement(cols) == [i \in 1 .. Len(cols) |-> <<i - 1, cols[i]>>]
ValidColumnSeqs(g, n) ==
    {cols \in [1 .. n -> Range(n)] : ValidPlacement(AsPlacement(cols), g, n)}
LexLess(a, b) ==
    \E k \in 1 .. Len(a) : a[k] < b[k] /\ \A m \in 1 .. (k - 1) : a[m] = b[m]
LexLeast(S) == CHOOSE a \in S : \A b \in S : b = a \/ LexLess(a, b)

Occupied(g, n) == {<<row, col>> \in Range(n) \X Range(n) : g[row][col].contains_queen}
Placed(qp) == {qp.items[i] : i \in 1 .. Len(qp.items)}
Regions(g, n) == [row \in Range(n) |-> [col \in Range(n) |-> g[row][col].color]]
FreshBoard == queen_positions = List(<<>>) /\ Occupied(grid, grid_size) = {}

\* C1: whenever solve reports success, the stored placement has exactly N
\* entries with pairwise-distinct rows, columns and regions and no two
\* entries within Chebyshev distance 1.
C1_SolvedPlacementValid ==
    (op = "solve" /\ result = "solved") =>
        (queen_positions.kind = "list"
         /\ ValidPlacement(queen_positions.items, grid, grid_size))

\* C2: two consecutive solve calls with nothing in between yield the same
\* placement and the same outcome.
C2_RepeatSolveSamePlacement ==
    [][(op = "solve" /\ op' = "solve") =>
          (queen_positions' = queen_positions /\ result' = result)]_vars

\* C3: every recolouring of a cell appends (row, col, previous region) to
\* the edit history and then sets the cell's region, so that the last
\* history entry is what undo needs to restore the cell.
C3_RecolorAppendsHistory ==
    [][(op' = "recolor") =>
          \E row \in Range(grid_size), col \in Range(grid_size) :
              /\ grid' = [grid EXCEPT ![row][col].color = grid'[row][col].color]
              /\ history' = Append(history, <<row, col, grid[row][col].color>>)]_vars

\* C4: a solve that finds no solution leaves placements and every occupied
\* flag exactly as they were before the call.
C4_FailedSolveLeavesBoard ==
    [][(op' = "solve" /\ result' = "no_solution") =>
          (queen_positions' = queen_positions /\ grid' = grid)]_vars

\* C5: in every reachable state a cell's occupied flag is true iff its
\* (row, col) appears in placements.
C5_OccupiedIffPlaced ==
    Occupied(grid, grid_size) = Placed(queen_positions)

\* C6: after solve reported no solution, the next solve on the unchanged
\* colouring completes and again reports no solution, without a fault.
C6_FailedSolveDefinitive ==
    [][(op = "solve" /\ result = "no_solution" /\ op' = "solve") =>
          result' = "no_solution"]_vars

\* C7: on a freshly constructed or reset board solve returns the
\* lexicographically least column sequence among all placements satisfying
\* the row, column, region and adjacency constraints, and reports no
\* solution exactly when there is none.
C7_FirstValidPlacement ==
    [][(FreshBoard /\ op' = "solve") =>
          IF ValidColumnSeqs(grid, grid_size) = {}
          THEN result' = "no_solution"
          ELSE /\ result' = "solved"
               /\ queen_positions' =
                    List(AsPlacement(LexLeast(ValidColumnSeqs(grid, grid_size))))]_vars

\* C8: for N = 2, a colouring with two cells of the same region in one row
\* makes solve report no solution.
C8_SameRegionRowInfeasible ==
    (grid_size = 2 /\ op = "solve"
       /\ \E row \in Range(2) : grid[row][0].color = grid[row][1].color)
    => result = "no_solution"

\* C9: in every reachable state placements is empty or holds exactly N
\* pairs with pairwise-distinct rows, columns and regions under the current
\* colouring and no two pairs within Chebyshev distance 1.
C9_PlacementsEmptyOrValid ==
    /\ queen_positions.kind = "list"
    /\ \/ queen_positions.items = <<>>
       \/ ValidPlacement(queen_positions.items, grid, grid_size)

\* C10: reset followed by solve on an unchanged colouring reproduces the
\* placement the original successful solve produced.
C10_ResetSolveReproduces ==
    [][(op = "reset" /\ orig # None /\ op' = "solve") =>
          (result' = "solved" /\ queen_positions' = orig)]_vars

\* A re-solve after the reset of a solved, unedited board has happened.
C10_Witness == resolve /\ op = "solve" /\ result = "solved" /\ grid_size >= 2

\* C11: worked examples.  With N = 1 and the single cell in region 0, solve
\* on the fresh board places a queen on that cell; with N = 4 and every
\* cell's region equal to its row index, solve on the fresh board succeeds
\* with one queen per row, one per column and no two queens adjacent.
RowIndexColoring ==
    \A row \in Range(grid_size), col \in Range(grid_size) : grid[row][col].color = row
NoAttack(items) ==
    \A i, j \in 1 .. Len(items) : i # j =>
        /\ items[i][1] # items[j][1]
        /\ items[i][2] # items[j][2]
        /\ ~ (Abs(items[i][1] - items[j][1]) <= 1 /\ Abs(items[i][2] - items[j][2]) <= 1)
C11_WorkedExamples ==
    [][(FreshBoard /\ RowIndexColoring /\ op' = "solve") =>
          /\ grid_size = 1 =>
                (result' = "solved" /\ queen_positions' = List(<< <<0, 0>> >>)
                 /\ grid'[0][0].contains_queen)
          /\ grid_size = 4 =>
                (result' = "solved" /\ Len(queen_positions'.items) = 4
                 /\ NoAttack(queen_positions'.items))]_vars

\* C12: after every successful solve, whatever operations came before, the
\* occupied flag is true on exactly the N cells of the stored placement and
\* false on every other cell.
C12_SolvedFlagsExact ==
    (op = "solve" /\ result = "solved") =>
        /\ Occupied(grid, grid_size) = Placed(queen_positions)
        /\ Cardinality(Occupied(grid, grid_size)) = grid_size

\* A successful solve of a board of several cells that was edited before.
C12_Witness ==
    /\ op = "solve" /\ result = "solved"
    /\ Cardinality(Placed(queen_positions)) >= 2
    /\ edits >= 2

\* C13: for every colouring that uses fewer than N distinct region
\* identifiers, a solve that runs its search (queen_positions holds a list
\* when it is called) reports no solution.
UsedRegions(g, n) == {g[row][col].color : row \in Range(n), col \in Range(n)}
C14_ResetFrame ==
    [][(op' = "reset") =>
          /\ queen_positions' = List(<<>>)
          /\ Occupied(grid', grid_size) = {}
          /\ Regions(grid', grid_size) = Regions(grid, grid_size)
          /\ history' = history
          /\ grid_size' = grid_size]_vars

\* A board of several cells holding a solution has been reset.
C14_Witness ==
    /\ op = "reset" /\ orig # None
    /\ grid_size >= 2
    /\ Cardinality(UsedRegions(grid, grid_size)) >= 2

\* C15: undo never changes placements or any occupied flag; with a
\* non-empty history it changes only the region of the one recorded cell
\* (to the recorded value) and removes the last history entry; with an empty
\* history it leaves the whole board unchanged and raises no error.
C15_UndoFrame ==
    [][(op' = "undo") =>
          /\ queen_positions' = queen_positions
          /\ Occupied(grid', grid_size) = Occupied(grid, grid_size)
          /\ result' # "TypeError"
          /\ IF Len(history) > 0
             THEN LET e == history[Len(history)]
                  IN  /\ history' = SubSeq(history, 1, Len(history) - 1)
                      /\ Regions(grid', grid_size) =
                            [Regions(grid, grid_size) EXCEPT ![e[1]][e[2]] = e[3]]
             ELSE /\ history' = history
                  /\ grid' = grid]_vars

\* Undo has popped an entry of a longer history on a board holding queens,
\* and the restored colouring differs from the one the queens were placed on.
C15_Witness ==
    /\ op = "undo" /\ Len(history) >= 1
    /\ Occupied(grid, grid_size) # {}
    /\ queen_positions.kind = "list"
    /\ Len(queen_positions.items) = 2
    /\ grid[queen_positions.items[1][1]][queen_positions.items[1][2]].color
         = grid[queen_positions.items[2][1]][queen_positions.items[2][2]].color

\* C16: solve, whether it succeeds or fails, leaves every cell's region and
\* the edit history unchanged; it writes only placements and occupied flags.
C16_SolveFrame ==
    [][(op' = "solve") =>
          /\ Regions(grid', grid_size) = Regions(grid, grid_size)
          /\ history' = history
          /\ grid_size' = grid_size]_vars

\* On a board with recorded history a solve succeeded and a later solve
\* failed (the queens of the first are still flagged).
C16_Witness ==
    /\ op = "solve" /\ result = "no_solution"
    /\ Occupied(grid, grid_size) # {}
    /\ Len(history) >= 1
    /\ grid_size >= 2

\* The state right after Grid(n): n x n cells, all region 0 and unoccupied,
\* empty placements, empty history.
ConstructedBoard ==
    /\ DOMAIN grid = Range(grid_size)
    /\ \A row \in Range(grid_size) :
          /\ DOMAIN grid[row] = Range(grid_size)
          /\ \A col \in Range(grid_size) :
                grid[row][col] = [row |-> row, col |-> col, color |-> 0,
                                  contains_queen |-> FALSE]
    /\ queen_positions = List(<<>>)
    /\ history = <<>>

\* C17 as stated: constructing a board of size N > 0 yields N x N cells all
\* with region 0, all unoccupied, with empty placements and empty history;
\* constructing with N <= 0 fails with InvalidSize and produces no board.
C17_ConstructOrInvalidSize ==
    (op = "init") =>
        IF grid_size > 0
        THEN result = "none" /\ ConstructedBoard
        ELSE result = "InvalidSize"

\* C17 amended: constructing a board of size N > 0 yields N x N cells all
\* with region 0, all unoccupied, with empty placements and empty history;
\* constructing with N <= 0 raises nothing and yields a board with no cells,
\* empty placements and empty history.
C17_ConstructAnySize ==
    (op = "init") =>
        /\ result = "none"
        /\ ConstructedBoard
        /\ grid_size <= 0 => grid = <<>>

\* Boards constructed with a non-positive size and with a size of several
\* cells: the constructed state of the first has no cells.
C17_Witness ==
    /\ op = "init" /\ grid_size < 0
    /\ DOMAIN grid = {}
    /\ queen_positions = List(<<>>)

\* C18: at every step of the backtracking search inside solve the partial
\* placement built so far is conflict-free: no two of its queens share a
\* row, share a column, lie within Chebyshev distance 1 or share a region.
ConflictFree(items, g) ==
    \A i, j \in 1 .. Len(items) : i # j =>
        /\ items[i][1] # items[j][1]
        /\ items[i][2] # items[j][2]
        /\ ~ (Abs(items[i][1] - items[j][1]) <= 1 /\ Abs(items[i][2] - items[j][2]) <= 1)
        /\ g[items[i][1]][items[i][2]].color # g[items[j][1]][items[j][2]].color
C18_PartialPlacementConflictFree ==
    [][(op' = "solve") =>
          \A partial \in commits(grid_size, grid, queen_positions, 0, 0, <<>>, {}) :
              ConflictFree(partial, grid)]_vars

\* C19: from any reachable board state solve terminates with success or
\* with no solution, and its recursion never goes deeper than row N.
C19_SolveTerminatesWithinDepth ==
    [][(op' = "solve") =>
          /\ result' \in {"solved", "no_solution"}
          /\ \A row \in rows_entered(grid_size, grid, queen_positions, 0, 0, <<>>, {}) :
                row <= grid_size]_vars

====
